---- MODULE Spec2Model ----
(***************************************************************************)
(* A model of package http2struct (src/http2struct.go, the current         *)
(* version of the file, lines 323-663): Convert binds the data of an HTTP  *)
(* request (JSON body, form, multipart files, binary body, headers, query, *)
(* path parameters) into the fields of a destination struct.               *)
(*                                                                         *)
(* Go strings are sequences of one-character strings; header values with   *)
(* a media type are sequences of lexemes.  A Go value is an integer, a     *)
(* boolean, a string, a sequence of element values (slice; the nil slice   *)
(* is << >>) or a File record; a nil *File is NilFile.                     *)
(***************************************************************************)
EXTENDS Integers, Sequences, FiniteSets, TLC

----------------------------------------------------------------------------
(* Bounds of the model.                                                    *)

\* longest raw string enumerated for the converter
MaxLen == 4

\* largest number of fields of an enumerated destination struct
MaxFields == 2

----------------------------------------------------------------------------
(* Strings.                                                                *)

RECURSIVE Pow(_, _)
Pow(b, n) == IF n = 0 THEN 1 ELSE b * Pow(b, n - 1)

Digits == <<"0", "1", "2", "3", "4", "5", "6", "7", "8", "9">>

IsDigit(c) == \E d \in 1..10 : Digits[d] = c

DigitVal(c) == (CHOOSE d \in 1..10 : Digits[d] = c) - 1

\* the value of a string of decimal digits
RECURSIVE DecVal(_)
DecVal(s) ==
    IF s = << >> THEN 0
    ELSE 10 * DecVal(SubSeq(s, 1, Len(s) - 1)) + DigitVal(s[Len(s)])

AllDigits(s) == Len(s) > 0 /\ \A k \in 1..Len(s) : IsDigit(s[k])

\* a Split that drops the empty parts
RECURSIVE SplitNonEmpty(_, _)
SplitNonEmpty(s, sep) ==
    IF \A k \in 1..Len(s) : s[k] # sep THEN <<s>>
    ELSE LET p == CHOOSE k \in 1..Len(s) :
                      s[k] = sep /\ \A j \in 1..(k - 1) : s[j] # sep
         IN  (IF p = 1 THEN << >> ELSE <<SubSeq(s, 1, p - 1)>>)
                 \o SplitNonEmpty(SubSeq(s, p + 1, Len(s)), sep)

\* strings.Split(s, sep) for a one-character separator: the parts between
\* the separators, empty parts included; always at least one part
RECURSIVE Split(_, _)
Split(s, sep) ==
    IF \A k \in 1..Len(s) : s[k] # sep THEN <<s>>
    ELSE LET p == CHOOSE k \in 1..Len(s) :
                      s[k] = sep /\ \A j \in 1..(k - 1) : s[j] # sep
         IN  <<SubSeq(s, 1, p - 1)>> \o Split(SubSeq(s, p + 1, Len(s)), sep)

\* strings.Cut(s, sep): the text before the first separator (all of s when
\* there is none)
CutBefore(s, sep) == Split(s, sep)[1]

\* strings.TrimSpace
RECURSIVE TrimSpace(_)
TrimSpace(s) ==
    IF s = << >> THEN s
    ELSE IF s[1] = " " THEN TrimSpace(Tail(s))
    ELSE IF s[Len(s)] = " " THEN TrimSpace(SubSeq(s, 1, Len(s) - 1))
    ELSE s

----------------------------------------------------------------------------
(* strconv.                                                                *)

\* The decimal strings of the model have fewer than ten digits: they are
\* within the range of every type of 32 bits or more, and the range check is
\* computed for the narrower types.
\* the result of a parse: ok, and the value when ok
Parsed(v) == [ok |-> TRUE, v |-> v]
ParseFailed == [ok |-> FALSE, v |-> 0]

\* a ParseInt that takes every type for the widest one
ParseIntWide(s, bits) ==
    LET signed == Len(s) > 0 /\ s[1] \in {"+", "-"}
        body   == IF signed THEN Tail(s) ELSE s
        mag    == DecVal(body)
    IN  IF ~AllDigits(body) THEN ParseFailed
        ELSE Parsed(IF signed /\ s[1] = "-" THEN 0 - mag ELSE mag)

\* strconv.ParseInt(value, 10, bits): an optional sign, decimal digits, and
\* the value within the signed range of the width
ParseInt(s, bits) ==
    LET signed == Len(s) > 0 /\ s[1] \in {"+", "-"}
        body   == IF signed THEN Tail(s) ELSE s
        mag    == DecVal(body)
        v      == IF signed /\ s[1] = "-" THEN 0 - mag ELSE mag
    IN  IF ~AllDigits(body) THEN ParseFailed
        ELSE IF bits < 32
                /\ (v < 0 - Pow(2, bits - 1) \/ v > Pow(2, bits - 1) - 1)
             THEN ParseFailed
        ELSE Parsed(v)

\* strconv.ParseUint(value, 10, bits): decimal digits, no sign, and the value
\* within the unsigned range of the width
ParseUint(s, bits) ==
    IF ~AllDigits(s) THEN ParseFailed
    ELSE IF bits < 32 /\ DecVal(s) > Pow(2, bits) - 1 THEN ParseFailed
    ELSE Parsed(DecVal(s))

\* strconv.ParseBool
ParseBool(s) ==
    IF s \in {<<"1">>, <<"t">>, <<"T">>, <<"t", "r", "u", "e">>,
              <<"T", "R", "U", "E">>, <<"T", "r", "u", "e">>}
    THEN Parsed(TRUE)
    ELSE IF s \in {<<"0">>, <<"f">>, <<"F">>, <<"f", "a", "l", "s", "e">>,
                   <<"F", "A", "L", "S", "E">>, <<"F", "a", "l", "s", "e">>}
    THEN Parsed(FALSE)
    ELSE ParseFailed

----------------------------------------------------------------------------
(* Types and values (package reflect).                                     *)

\* the Go types of the destination fields of the model
ScalarTypes == {"bool", "int", "int8", "int16", "uint", "uint8", "uint16",
                "string"}
SliceTypes == {"[]int", "[]int8", "[]bool", "[]string", "[][]int"}
FileTypes == {"File", "*File"}
Types == ScalarTypes \cup SliceTypes \cup FileTypes \cup {"map[string]int"}

\* reflect.Type.Kind
Kind(t) ==
    CASE t = "bool" -> "bool"
      [] t \in {"int", "int8", "int16"} -> "int"
      [] t \in {"uint", "uint8", "uint16"} -> "uint"
      [] t = "string" -> "string"
      [] t \in SliceTypes -> "slice"
      [] t = "File" -> "struct"
      [] t = "*File" -> "ptr"
      [] OTHER -> "map"

\* reflect.Type.Bits of an integer type
Bits(t) ==
    CASE t \in {"int8", "uint8"} -> 8
      [] t \in {"int16", "uint16"} -> 16
      [] OTHER -> 64

\* reflect.Type.Elem of a slice type
Elem(t) ==
    CASE t = "[]int" -> "int"
      [] t = "[]int8" -> "int8"
      [] t = "[]bool" -> "bool"
      [] t = "[]string" -> "string"
      [] t = "[][]int" -> "[]int"

\* the File struct
File(name, size, content) == [Name |-> name, Size |-> size, Content |-> content]

\* the zero value of a type (reflect.Value.SetZero, reflect.MakeSlice's
\* elements); a nil slice, a nil map and a nil pointer are << >>
Zero(t) ==
    CASE Kind(t) = "bool" -> FALSE
      [] Kind(t) \in {"int", "uint"} -> 0
      [] Kind(t) = "struct" -> File(<< >>, 0, << >>)
      [] OTHER -> << >>

\* the nil error
Nil == << >>

----------------------------------------------------------------------------
(* convert.                                                                *)

\* what convert leaves behind: the error it returns and the value of the field
Converted(err, val) == [err |-> err, val |-> val]

\* strconv's error, wrapped at the end of convert (lines 658-660)
ParseError(t, fn) == <<"failed to parse value to %q", Kind(t), fn>>

\* the scalar cases of convert's switch (lines 600-634, 652-656): the field
\* is set when the value parses
convertScalar(cur, t, value) ==
    CASE Kind(t) = "bool" ->
           LET p == ParseBool(value)
           IN  IF p.ok THEN Converted(Nil, p.v)
               ELSE Converted(ParseError(t, "strconv.ParseBool"), cur)
      [] Kind(t) = "int" ->
           LET p == ParseInt(value, Bits(t))
           IN  IF p.ok THEN Converted(Nil, p.v)
               ELSE Converted(ParseError(t, "strconv.ParseInt"), cur)
      [] Kind(t) = "uint" ->
           LET p == ParseUint(value, Bits(t))
           IN  IF p.ok THEN Converted(Nil, p.v)
               ELSE Converted(ParseError(t, "strconv.ParseUint"), cur)
      [] Kind(t) = "string" -> Converted(Nil, value)
      [] OTHER -> Converted(<<"kind %q is not supported", Kind(t)>>, cur)

\* convert without the test of the element kind (lines 638-640)
RECURSIVE convertNested(_, _, _)
convertNested(cur, t, value) ==
    IF value = << >> THEN Converted(Nil, cur)
    ELSE IF Kind(t) # "slice" THEN convertScalar(cur, t, value)
    ELSE LET parts == Split(value, ",")
             elems == [k \in 1..Len(parts) |->
                          convertNested(Zero(Elem(t)), Elem(t), parts[k])]
             bad   == {k \in 1..Len(parts) : elems[k].err # Nil}
         IN  IF bad = {}
             THEN Converted(Nil, [k \in 1..Len(parts) |-> elems[k].val])
             ELSE LET k == CHOOSE j \in bad : \A m \in bad : j <= m
                  IN  Converted(<<"failed to convert slice element for index %d",
                                  ToString(k - 1)>> \o elems[k].err, cur)

\* convert(field, fieldType, value): cur is the value the field holds
RECURSIVE convert(_, _, _)
convert(cur, t, value) ==
    IF value = << >> THEN Converted(Nil, cur)
    ELSE IF Kind(t) # "slice" THEN convertScalar(cur, t, value)
    ELSE IF Kind(Elem(t)) = "slice"
         THEN Converted(<<"slice element kind %q is not supported",
                          Kind(Elem(t))>>, cur)
    ELSE LET parts == Split(value, ",")
             elems == [k \in 1..Len(parts) |->
                          convert(Zero(Elem(t)), Elem(t), parts[k])]
             bad   == {k \in 1..Len(parts) : elems[k].err # Nil}
         IN  IF bad = {}
             THEN Converted(Nil, [k \in 1..Len(parts) |-> elems[k].val])
             ELSE LET k == CHOOSE j \in bad : \A m \in bad : j <= m
                  IN  Converted(<<"failed to convert slice element for index %d",
                                  ToString(k - 1)>> \o elems[k].err, cur)

----------------------------------------------------------------------------
(* Struct fields and their tags (reflect.StructField, reflect.StructTag).  *)

\* a field declaration; a tag is a set of <<key, value>> pairs
Field(name, exported, type, tag) ==
    [Name |-> name, Exported |-> exported, Type |-> type, Tag |-> tag]

\* field.Tag.Lookup(key): ok, and the value of the tag
Lookup(tag, key) ==
    IF \E p \in tag : p[1] = key
    THEN [ok |-> TRUE, value |-> (CHOOSE p \in tag : p[1] = key)[2]]
    ELSE [ok |-> FALSE, value |-> ""]

\* the condition of lines 398, 519, 530 and 541: the tag is there and is
\* neither empty nor "-"
Named(tag, key) ==
    /\ Lookup(tag, key).ok
    /\ Lookup(tag, key).value # ""
    /\ Lookup(tag, key).value # "-"

\* Source with the query test ahead of the header test
SourceQueryFirst(field) ==
    IF Named(field.Tag, "form") THEN "form"
    ELSE IF Named(field.Tag, "file") /\ Lookup(field.Tag, "file").value # "binary"
         THEN "file"
    ELSE IF Lookup(field.Tag, "file").ok
            /\ Lookup(field.Tag, "file").value = "binary"
         THEN "binary"
    ELSE IF Named(field.Tag, "query") THEN "query"
    ELSE IF Named(field.Tag, "header") THEN "header"
    ELSE IF Named(field.Tag, "path") THEN "path"
    ELSE "none"

\* the branch of the per-field loop that a field takes: the chain of tests of
\* lines 397-549, in the order of the code
Source(field) ==
    IF Named(field.Tag, "form") THEN "form"
    ELSE IF Named(field.Tag, "file") /\ Lookup(field.Tag, "file").value # "binary"
         THEN "file"
    ELSE IF Lookup(field.Tag, "file").ok
            /\ Lookup(field.Tag, "file").value = "binary"
         THEN "binary"
    ELSE IF Named(field.Tag, "header") THEN "header"
    ELSE IF Named(field.Tag, "query") THEN "query"
    ELSE IF Named(field.Tag, "path") THEN "path"
    ELSE "none"

\* lines 420-426 and 468-474: a file field is a File or a *File
FileTypeSupported(t) == t \in {"File", "*File"}

\* lines 455-461 and 507-513: the File, or a pointer to it (a sequence of one)
FileValue(t, f) == IF Kind(t) = "ptr" THEN <<f>> ELSE f

----------------------------------------------------------------------------
(* The request (net/http.Request), as far as Convert reads it.             *)

\* the characters of a string literal of the model
BearerX == <<"B", "e", "a", "r", "e", "r", " ", "x">>

JSONBody == <<"{", "name", ":", "a", "}">>
RawBody == <<"r", "a", "w">>

ApplicationJSON == <<"application/json">>
JSONWithCharset == <<" ", "application/json", " ", ";", " ", "charset=utf-8">>
MultipartFormData == <<"multipart/form-data", ";", " ", "boundary=b">>

\* a Content-Disposition header with a filename parameter
Attachment == <<"attachment", ";", " ", "filename", "=", "a.bin">>

\* the part "doc" of a multipart body
DocPart == [Filename |-> <<"d.txt">>, Content |-> <<"d", "o", "c">>]

\* request.Header.Get(key), request.URL.Query().Get(key),
\* request.PathValue(key), request.PostForm[key]: the value, "" when the key
\* is absent
Get(values, key) ==
    IF \E p \in values : p[1] = key
    THEN (CHOOSE p \in values : p[1] = key)[2]
    ELSE << >>

\* the key is there: request.FormFile(key) finds a part (else
\* http.ErrMissingFile)
Has(values, key) == \E p \in values : p[1] = key

\* the media type of line 428 and of line 560-562: the text before the first
\* ';', trimmed
MediaType(request) == TrimSpace(CutBefore(Get(request.Header, "Content-Type"), ";"))

\* mime.ParseMediaType's filename parameter, lines 480-490: "" when the
\* header is absent or has no such parameter
Filename(disposition) ==
    IF \E k \in 1..Len(disposition) : disposition[k] = "filename"
    THEN LET k == CHOOSE j \in 1..Len(disposition) : disposition[j] = "filename"
         IN  IF k + 2 <= Len(disposition) /\ disposition[k + 1] = "="
             THEN <<disposition[k + 2]>>
             ELSE << >>
    ELSE << >>

----------------------------------------------------------------------------
(* encoding/json, as far as convertBody uses it.                           *)

\* the key under which the decoder looks for a field: the name of its json
\* tag, else the name of the field; "" for a field the decoder skips
Lower(name) == IF name = "Name" THEN "name" ELSE name

JSONKey(field) ==
    IF ~field.Exported THEN ""
    ELSE IF Lookup(field.Tag, "json").ok /\ Lookup(field.Tag, "json").value = "-"
         THEN ""
    ELSE IF Lookup(field.Tag, "json").ok /\ Lookup(field.Tag, "json").value # ""
         THEN Lookup(field.Tag, "json").value
    ELSE Lower(field.Name)

\* the document of a body: an object of one member, or a syntax error
ValidJSON(body) ==
    Len(body) = 5 /\ body[1] = "{" /\ body[3] = ":" /\ body[5] = "}"

\* Decode(destination): every exported field whose key is a member of the
\* document gets the member's value; a string member does not fit a field of
\* another type (an UnmarshalTypeError, and the field is left alone)
DecodeFits(fields, k, body) ==
    /\ JSONKey(fields[k]) = body[2]
    /\ fields[k].Type = "string"

DecodeMisfits(fields, body) ==
    \E k \in 1..Len(fields) :
        JSONKey(fields[k]) = body[2] /\ fields[k].Type # "string"

Decode(fields, values, body) ==
    [k \in 1..Len(fields) |->
        IF DecodeFits(fields, k, body) THEN <<body[4]>> ELSE values[k]]

----------------------------------------------------------------------------
(* The state of one call Convert(request, destination).                    *)

VARIABLES
    request,      \* the request: NilRequest, or its header, URL and body
    destination,  \* what the caller passes: "nil", "T" (a struct, not a
                  \* pointer), "*int", "nil *T" (a nil pointer to a struct)
                  \* or "*T"
    fields,       \* destinationType: the fields of the struct type T
    before,       \* the values of the fields when Convert is called
    v,            \* the values of the fields of the struct
    Body,         \* request.Body: what is left of the stream
    PostForm,     \* request.PostForm: << >> when nil, else <<the form values>>
    pc,           \* where the call is: "Convert", "convertBody", "loop",
                  \* "return" or "panic"
    i,            \* the index of the per-field loop (from 1)
    err,          \* the error returned, Nil for none
    bound,        \* for each field: the branch of the loop it took, "" for a
                  \* field that the loop has not bound (not reached, or skipped)
    reads         \* the reads of the request: <<reader, field index>>, in order

vars == <<request, destination, fields, before, v, Body, PostForm, pc, i, err,
          bound, reads>>

NilRequest == [Header |-> {}, Query |-> {}, Path |-> {}, Form |-> {},
               Part |-> {}, Body |-> << >>, IsNil |-> TRUE]

\* request.ContentLength
ContentLength == Len(request.Body)

\* destinationType.NumField()
NumField == Len(fields)

\* no reset: the field keeps the value of the caller
KeepValue(values, k) == values

\* fieldValue.SetZero(), line 395
SetZero(values, k) == [values EXCEPT ![k] = Zero(fields[k].Type)]

\* the end of one pass of the loop body: `continue`, or a return with an error
Continue(values) ==
    /\ v' = values
    /\ i' = i + 1
    /\ UNCHANGED <<pc, err>>

\* a return that also resets the fields the loop has not reached
ReturnZeroingRest(values, e) ==
    /\ v' = [j \in 1..NumField |->
                IF j > i THEN Zero(fields[j].Type) ELSE values[j]]
    /\ pc' = "return"
    /\ err' = e
    /\ UNCHANGED i

Return(values, e) ==
    /\ v' = values
    /\ pc' = "return"
    /\ err' = e
    /\ UNCHANGED i

\* a missing file taken for an error, as any other error of FormFile
MissingFileIsError(values) ==
    Return(values, <<"failed to get %q form file for %q field",
                     Lookup(fields[i].Tag, "file").value, fields[i].Name,
                     "http: no such file">>)

\* lines 435-437: http.ErrMissingFile is no error, the loop goes on
MissingFile(values) == Continue(values)

\* the loop is at an exported (hence settable) field that takes the branch
AtField(branch) ==
    /\ pc = "loop"
    /\ i <= NumField
    /\ destination = "*T"
    /\ fields[i].Exported
    /\ Source(fields[i]) = branch

\* CheckArguments without the test of line 372: a pointer to a non-struct is
\* let through
CheckArgumentsAnyPointer ==
    /\ pc = "Convert"
    /\ IF request.IsNil
       THEN pc' = "return" /\ err' = <<"request cannot be nil">>
       ELSE IF destination = "nil"
       THEN pc' = "return" /\ err' = <<"destination cannot be nil">>
       ELSE IF destination = "T"
       THEN pc' = "return" /\ err' = <<"destination must be a pointer">>
       ELSE pc' = "convertBody" /\ err' = Nil
    /\ UNCHANGED <<request, destination, fields, before, v, Body, PostForm, i,
                   bound, reads>>

\* lines 356-374: the checks of the arguments
CheckArguments ==
    /\ pc = "Convert"
    /\ IF request.IsNil
       THEN pc' = "return" /\ err' = <<"request cannot be nil">>
       ELSE IF destination = "nil"
       THEN pc' = "return" /\ err' = <<"destination cannot be nil">>
       ELSE IF destination = "T"
       THEN pc' = "return" /\ err' = <<"destination must be a pointer">>
       ELSE IF destination = "*int"
       THEN pc' = "return" /\ err' = <<"destination must be a struct">>
       ELSE pc' = "convertBody" /\ err' = Nil
    /\ UNCHANGED <<request, destination, fields, before, v, Body, PostForm, i,
                   bound, reads>>

\* HasJSONField without the tests of lines 569-580: any field with a json tag
HasJSONFieldAnyTag ==
    \E k \in 1..NumField : Lookup(fields[k].Tag, "json").ok

\* lines 566-587: some exported field has a json tag other than "-"
HasJSONField ==
    \E k \in 1..NumField :
        /\ fields[k].Exported
        /\ Lookup(fields[k].Tag, "json").ok
        /\ Lookup(fields[k].Tag, "json").value # "-"

\* lines 376-380 and convertBody, lines 555-590
ConvertBody ==
    /\ pc = "convertBody"
    /\ IF ContentLength = 0 \/ MediaType(request) # ApplicationJSON
          \/ ~HasJSONField
       THEN /\ pc' = "loop"
            /\ UNCHANGED <<v, Body, err, reads>>
       ELSE /\ Body' = << >>
            /\ reads' = Append(reads, <<"json", 0>>)
            /\ IF ~ValidJSON(Body)
               THEN /\ pc' = "return"
                    /\ err' = <<"failed to convert body",
                                "failed to decode request body", "syntax">>
                    /\ v' = v
               ELSE IF destination = "nil *T"
               THEN /\ pc' = "return"
                    /\ err' = <<"failed to convert body",
                                "failed to decode request body",
                                "json: Unmarshal(nil)">>
                    /\ v' = v
               ELSE /\ v' = Decode(fields, v, Body)
                    /\ IF DecodeMisfits(fields, Body)
                       THEN /\ pc' = "return"
                            /\ err' = <<"failed to convert body",
                                        "failed to decode request body",
                                        "json: cannot unmarshal">>
                       ELSE /\ pc' = "loop"
                            /\ err' = Nil
    /\ i' = 1
    /\ UNCHANGED <<request, destination, fields, before, PostForm, bound>>

\* lines 385-393: an unexported field is passed over
SkipField ==
    /\ pc = "loop"
    /\ i <= NumField
    /\ ~fields[i].Exported
    /\ i' = i + 1
    /\ UNCHANGED <<request, destination, fields, before, v, Body, PostForm,
                   pc, err, bound, reads>>

\* line 389, v.Field(i) with v the Elem of a nil pointer: reflect panics
FieldOfNil ==
    /\ pc = "loop"
    /\ i <= NumField
    /\ fields[i].Exported
    /\ destination = "nil *T"
    /\ pc' = "panic"
    /\ UNCHANGED <<request, destination, fields, before, v, Body, PostForm,
                   i, err, bound, reads>>

\* request.ParseMultipartForm, as lines 400 and 434 (through FormFile) use
\* it: it reads the body, and fails unless the request is a multipart form
\* whose body is still there
CanParseMultipartForm ==
    /\ MediaType(request) = <<"multipart/form-data">>
    /\ Body # << >>

\* lines 395-416: a form field
FieldForm ==
    /\ AtField("form")
    /\ LET tag == Lookup(fields[i].Tag, "form").value
           zeroed == SetZero(v, i)
           parse == PostForm = << >>
           form == IF parse THEN request.Form ELSE PostForm[1]
           c == convert(zeroed[i], fields[i].Type, Get(form, tag))
       IN  IF parse /\ ~CanParseMultipartForm
           THEN /\ Return(zeroed, <<"failed to parse request multipart form",
                                    "http.ParseMultipartForm">>)
                /\ PostForm' = <<{}>>
                /\ reads' = Append(reads, <<"ParseMultipartForm", i>>)
                /\ UNCHANGED Body
           ELSE /\ PostForm' = <<form>>
                /\ Body' = IF parse THEN << >> ELSE Body
                /\ reads' = (IF parse
                             THEN Append(reads, <<"ParseMultipartForm", i>>)
                             ELSE reads) \o <<<<"form", i>>>>
                /\ IF c.err # Nil
                   THEN Return([zeroed EXCEPT ![i] = c.val],
                               <<"failed to convert %q source to %q field",
                                 "form", tag, fields[i].Name>> \o c.err)
                   ELSE Continue([zeroed EXCEPT ![i] = c.val])
    /\ bound' = [bound EXCEPT ![i] = "form"]
    /\ UNCHANGED <<request, destination, fields, before>>

\* lines 418-464: a file of a multipart form
FieldFile ==
    /\ AtField("file")
    /\ LET tag == Lookup(fields[i].Tag, "file").value
           type == fields[i].Type
           zeroed == SetZero(v, i)
           parse == PostForm = << >>
           part == Get(request.Part, tag)
       IN  IF ~FileTypeSupported(type)
           THEN /\ Return(zeroed, <<"%q type is not supported for %q field",
                                    type, fields[i].Name>>)
                /\ UNCHANGED <<Body, PostForm, reads>>
           ELSE IF MediaType(request) # <<"multipart/form-data">>
           THEN /\ Continue(zeroed)
                /\ UNCHANGED <<Body, PostForm, reads>>
           ELSE IF parse /\ ~CanParseMultipartForm
           THEN /\ Return(zeroed, <<"failed to get %q form file for %q field",
                                    tag, fields[i].Name,
                                    "http.ParseMultipartForm">>)
                /\ PostForm' = <<{}>>
                /\ reads' = Append(reads, <<"ParseMultipartForm", i>>)
                /\ UNCHANGED Body
           ELSE /\ PostForm' = IF parse THEN <<request.Form>> ELSE PostForm
                /\ Body' = IF parse THEN << >> ELSE Body
                /\ reads' = (IF parse
                             THEN Append(reads, <<"ParseMultipartForm", i>>)
                             ELSE reads) \o <<<<"file", i>>>>
                /\ IF ~Has(request.Part, tag)
                   THEN MissingFile(zeroed)
                   ELSE \E readAll \in BOOLEAN :
                          IF ~readAll
                          THEN Return(zeroed,
                                 <<"failed to read %q form file content for %q field",
                                   tag, fields[i].Name, "io.ReadAll">>)
                          ELSE Continue([zeroed EXCEPT ![i] =
                                 FileValue(type, File(part.Filename,
                                                      Len(part.Content),
                                                      part.Content))])
    /\ bound' = [bound EXCEPT ![i] = "file"]
    /\ UNCHANGED <<request, destination, fields, before>>

\* lines 466-516: the whole body as a file
FieldBinary ==
    /\ AtField("binary")
    /\ LET tag == Lookup(fields[i].Tag, "file").value
           type == fields[i].Type
           zeroed == SetZero(v, i)
           filename == Filename(Get(request.Header, "Content-Disposition"))
       IN  IF ~FileTypeSupported(type)
           THEN /\ Return(zeroed, <<"%q type is not supported for %q field",
                                    type, fields[i].Name>>)
                /\ UNCHANGED <<Body, reads>>
           ELSE IF ContentLength = 0
           THEN /\ Return(zeroed, Nil)
                /\ UNCHANGED <<Body, reads>>
           ELSE IF filename = << >>
           THEN /\ Continue(zeroed)
                /\ UNCHANGED <<Body, reads>>
           ELSE /\ Body' = << >>
                /\ reads' = Append(reads, <<"binary", i>>)
                /\ \E readAll \in BOOLEAN :
                     IF ~readAll
                     THEN Return(zeroed,
                            <<"failed to read %q raw body for %q field", tag,
                              fields[i].Name, "io.ReadAll">>)
                     ELSE Continue([zeroed EXCEPT ![i] =
                            FileValue(type, File(filename, ContentLength, Body))])
    /\ bound' = [bound EXCEPT ![i] = "binary"]
    /\ UNCHANGED <<request, destination, fields, before, PostForm>>

\* FieldValue with the arguments of the error message in the wrong order
FieldValueSwapped(branch, values) ==
    /\ AtField(branch)
    /\ LET tag == Lookup(fields[i].Tag, branch).value
           zeroed == SetZero(v, i)
           c == convert(zeroed[i], fields[i].Type, Get(values, tag))
       IN  IF c.err # Nil
           THEN Return([zeroed EXCEPT ![i] = c.val],
                       <<"failed to convert %q source to %q field", branch,
                         fields[i].Name, tag>> \o c.err)
           ELSE Continue([zeroed EXCEPT ![i] = c.val])
    /\ bound' = [bound EXCEPT ![i] = branch]
    /\ reads' = Append(reads, <<branch, i>>)
    /\ UNCHANGED <<request, destination, fields, before, Body, PostForm>>

\* the three branches of lines 518-549: the value of the source is converted
\* into the zeroed field
FieldValue(branch, values) ==
    /\ AtField(branch)
    /\ LET tag == Lookup(fields[i].Tag, branch).value
           zeroed == SetZero(v, i)
           c == convert(zeroed[i], fields[i].Type, Get(values, tag))
       IN  IF c.err # Nil
           THEN Return([zeroed EXCEPT ![i] = c.val],
                       <<"failed to convert %q source to %q field", branch, tag,
                         fields[i].Name>> \o c.err)
           ELSE Continue([zeroed EXCEPT ![i] = c.val])
    /\ bound' = [bound EXCEPT ![i] = branch]
    /\ reads' = Append(reads, <<branch, i>>)
    /\ UNCHANGED <<request, destination, fields, before, Body, PostForm>>

\* lines 518-527
FieldHeader == FieldValue("header", request.Header)

\* lines 529-538
FieldQuery == FieldValue("query", request.Query)

\* lines 540-549
FieldPath == FieldValue("path", request.Path)

\* lines 395 and 550: a field that no test of the chain takes is zeroed
FieldNone ==
    /\ AtField("none")
    /\ Continue(SetZero(v, i))
    /\ bound' = [bound EXCEPT ![i] = "none"]
    /\ UNCHANGED <<request, destination, fields, before, Body, PostForm, reads>>

\* line 552: the loop is over
ReturnNil ==
    /\ pc = "loop"
    /\ i > NumField
    /\ pc' = "return"
    /\ err' = Nil
    /\ UNCHANGED <<request, destination, fields, before, v, Body, PostForm, i,
                   bound, reads>>

----------------------------------------------------------------------------
(* The calls of the model: the destinations and the requests.              *)

Page == Field("Page", TRUE, "int", {<<"query", "page">>})
Token == Field("Token", TRUE, "string", {<<"header", "Authorization">>})
Name == Field("Name", TRUE, "string", {<<"json", "name">>})
Upload == Field("Upload", TRUE, "File", {<<"file", "binary">>})
Doc == Field("Doc", TRUE, "*File", {<<"file", "doc">>})
Limit == Field("Limit", TRUE, "int", {})
secret == Field("secret", FALSE, "int",
                {<<"query", "page">>, <<"json", "secret">>})
Title == Field("Title", TRUE, "string", {<<"form", "title">>})
Matrix == Field("Matrix", TRUE, "[][]int", {<<"path", "id">>, <<"json", "-">>})
Pick == Field("Pick", TRUE, "string",
              {<<"form", "-">>, <<"file", "">>,
               <<"header", "Authorization">>, <<"query", "page">>})
Avatar == Field("Avatar", TRUE, "string", {<<"file", "avatar">>})

FieldPool == {Page, Token, Name, Upload, Doc, Limit, secret, Title, Matrix,
              Pick, Avatar}

\* the struct of the end-to-end example: query, header and JSON body
EndToEnd == <<Page, Token, Name>>

\* the struct types of up to n fields of the pool (the fields of a struct have
\* distinct names)
Structs(n) ==
    UNION {{fs \in [1..k -> FieldPool] :
               \A a, b \in 1..k : fs[a] = fs[b] => a = b} : k \in 1..n}

\* a value other than the zero value, as a caller may leave in a field.
\* Convert never reads the value of a field: the calls of the model start
\* from preset fields, where a field left alone differs from a field reset.
Preset(t) ==
    CASE Kind(t) = "bool" -> TRUE
      [] Kind(t) \in {"int", "uint"} -> 10
      [] Kind(t) = "string" -> <<"d", "e", "f">>
      [] Kind(t) = "struct" -> File(<<"old">>, 1, <<"o">>)
      [] Kind(t) = "ptr" -> <<File(<<"old">>, 1, <<"o">>)>>
      [] t = "[][]int" -> <<<<10>>>>
      [] t = "[]string" -> <<<<"d">>>>
      [] t = "[]bool" -> <<TRUE>>
      [] OTHER -> <<10>>

\* some field of the struct names the key in a tag of the source
Uses(fs, source, key) ==
    \E k \in 1..Len(fs) : Lookup(fs[k].Tag, source) = [ok |-> TRUE, value |-> key]

\* the values of a key of the request: it has one when some field asks for it
ValuesOf(fs, source, key, values) ==
    IF Uses(fs, source, key) THEN {<< >>} \cup values ELSE {<< >>}

\* a key and its value, when it has one
Pair(key, value) == IF value = << >> THEN {} ELSE {<<key, value>>}

ContentTypes == {<< >>, ApplicationJSON, JSONWithCharset, MultipartFormData}

\* the bodies of a content type: none, a JSON document when the type says
\* so, or other bytes
Bodies(ct) ==
    IF TrimSpace(CutBefore(ct, ";")) = ApplicationJSON
    THEN {<< >>, JSONBody, RawBody}
    ELSE {<< >>, RawBody}

\* the requests of a content type that matter to a struct type
RequestsOf(fs, ct) ==
    {[Header |-> Pair("Content-Type", ct) \cup Pair("Content-Disposition", cd)
                   \cup Pair("Authorization", auth),
      Query |-> Pair("page", page),
      Path |-> Pair("id", id),
      Form |-> Pair("title", title),
      Part |-> Pair("doc", part),
      Body |-> body,
      IsNil |-> FALSE] :
        body \in Bodies(ct),
        cd \in ValuesOf(fs, "file", "binary", {Attachment}),
        auth \in ValuesOf(fs, "header", "Authorization", {BearerX}),
        page \in ValuesOf(fs, "query", "page", {<<"2">>, <<"x">>}),
        id \in ValuesOf(fs, "path", "id", {<<"7">>}),
        title \in ValuesOf(fs, "form", "title", {<<"g", "o">>}),
        part \in ValuesOf(fs, "file", "doc", {DocPart})}

Requests(fs) == UNION {RequestsOf(fs, ct) : ct \in ContentTypes}

\* a multipart body carries the form values and the parts; no other body does
WellFormed(r) ==
    (r.Form # {} \/ r.Part # {}) =>
        /\ Get(r.Header, "Content-Type") = MultipartFormData
        /\ r.Body = RawBody

Start(r, d, fs, values) ==
    /\ request = r
    /\ destination = d
    /\ fields = fs
    /\ before = values
    /\ v = values
    /\ Body = r.Body
    /\ PostForm = << >>
    /\ pc = "Convert"
    /\ i = 0
    /\ err = Nil
    /\ bound = [k \in 1..Len(fs) |-> ""]
    /\ reads = << >>

Init ==
    \/ \E fs \in Structs(MaxFields) \cup {EndToEnd} :
       \E r \in {q \in Requests(fs) : WellFormed(q)} :
           Start(r, "*T", fs, [k \in 1..Len(fs) |-> Preset(fs[k].Type)])
    \/ \E fs \in Structs(1) :
       \E r \in {q \in Requests(fs) : WellFormed(q)} \cup {NilRequest} :
       \E d \in {"nil", "T", "*int", "nil *T", "*T"} :
           /\ r = NilRequest \/ d # "*T"
           /\ Start(r, d, IF d \in {"nil", "*int"} THEN << >> ELSE fs,
                    IF d \in {"nil", "*int"} THEN << >>
                    ELSE [k \in 1..Len(fs) |-> Preset(fs[k].Type)])

Next ==
    \/ CheckArguments
    \/ ConvertBody
    \/ SkipField
    \/ FieldOfNil
    \/ FieldForm
    \/ FieldFile
    \/ FieldBinary
    \/ FieldHeader
    \/ FieldQuery
    \/ FieldPath
    \/ FieldNone
    \/ ReturnNil

Spec == Init /\ [][Next]_vars

----------------------------------------------------------------------------
(* The converter alone: calls that bind one field of each type from one    *)
(* query parameter, over every short string.                               *)

Chars == {"1", "2", "8", ",", "-", "x"}

\* the strings of at most n characters
Strings(n) == UNION {[1..k -> Chars] : k \in 0..n}

\* the raw values of the examples
Examples == {<<"1", ",", "2", ",", "3">>, <<"t", "r", "u", "e">>,
             <<"1", "2", "7">>, <<"2", "5", "6">>, <<"-", "1", "2", "9">>,
             <<"2", "5", "5">>, <<"3", "2", "7", "6", "7">>,
             <<"3", "2", "7", "6", "8">>, <<"-", "3", "2", "7", "6", "8">>,
             <<"-", "3", "2", "7", "6", "9">>, <<"6", "5", "5", "3", "5">>,
             <<"6", "5", "5", "3", "6">>, <<"0">>}

Value(t) == Field("Value", TRUE, t, {<<"query", "value">>})

InitConvert ==
    \E t \in Types :
    \E s \in Strings(MaxLen) \cup Examples :
        Start([Header |-> {}, Query |-> Pair("value", s), Path |-> {},
               Form |-> {}, Part |-> {}, Body |-> << >>, IsNil |-> FALSE],
              "*T", <<Value(t)>>, <<Preset(t)>>)

NextConvert ==
    \/ CheckArguments
    \/ ConvertBody
    \/ FieldQuery
    \/ ReturnNil

SpecConvert == InitConvert /\ [][NextConvert]_vars

----------------------------------------------------------------------------
(* Properties.                                                             *)

Returned == pc = "return"

\* the readers of the request that ran for the field k
ReadersOf(k) == {reads[n][1] : n \in {m \in 1..Len(reads) : reads[m][2] = k}}

\* the order of the sources, and the first of them that a field names with a
\* tag that is neither empty nor "-"
Priority == <<"form", "file", "header", "query", "path">>

Selected(field) ==
    IF \E n \in 1..Len(Priority) : Named(field.Tag, Priority[n])
    THEN Priority[CHOOSE n \in 1..Len(Priority) :
                      /\ Named(field.Tag, Priority[n])
                      /\ \A m \in 1..(n - 1) : ~Named(field.Tag, Priority[m])]
    ELSE "none"

\* the source of a branch of the loop: both file branches read the file source
SourceOf(branch) == IF branch = "binary" THEN "file" ELSE branch

\* the readers that belong to a source
ReadersFor(source) ==
    CASE source = "form" -> {"form", "ParseMultipartForm"}
      [] source = "file" -> {"file", "binary", "ParseMultipartForm"}
      [] source = "none" -> {}
      [] OTHER -> {source}

\* the request of the end-to-end example
IsEndToEnd ==
    /\ destination = "*T"
    /\ fields = EndToEnd
    /\ ~request.IsNil
    /\ request.Query = {<<"page", <<"2">>>>}
    /\ request.Header = {<<"Authorization", BearerX>>,
                         <<"Content-Type", ApplicationJSON>>}
    /\ request.Body = JSONBody

\* C1 (the claim as stated; the code breaks it): the end-to-end call returns
\* no error and leaves 2, "Bearer x" and "a" in the three fields, the value of
\* the JSON pass still being in the json-only field after the loop.
C1_EndToEndPopulated ==
    (IsEndToEnd /\ Returned) => (err = Nil /\ v = <<2, BearerX, <<"a">>>>)

C3_Precedence ==
    /\ \A k \in 1..NumField :
          bound[k] # "" => SourceOf(bound[k]) = Selected(fields[k])
    /\ \A n \in 1..Len(reads) :
          reads[n][2] # 0 =>
              reads[n][1] \in ReadersFor(Selected(fields[reads[n][2]]))
    /\ (Returned /\ err = Nil /\ i > NumField) =>
          \A k \in 1..NumField : fields[k].Exported => bound[k] # ""

\* a field with several tags, the first of them "-" and empty, is bound from
\* the header although the request has no such header and has the query
\* parameter
C3_Witness ==
    /\ Returned /\ err = Nil
    /\ \E k \in 1..NumField :
          /\ fields[k] = Pick
          /\ bound[k] = "header"
          /\ ~Has(request.Header, "Authorization") /\ request.Query # {}
          /\ v[k] = << >>

\* the value that the request holds for the selected source of a field, and
\* whether it holds one
ValuesIn(source) ==
    CASE source = "form" -> request.Form
      [] source = "header" -> request.Header
      [] source = "query" -> request.Query
      [] source = "path" -> request.Path

Raw(k) == Get(ValuesIn(Selected(fields[k])),
              Lookup(fields[k].Tag, Selected(fields[k])).value)

IsBinary(k) == Lookup(fields[k].Tag, "file").value = "binary"

Present(k) ==
    CASE Selected(fields[k]) = "none" -> FALSE
      [] Selected(fields[k]) = "file" /\ IsBinary(k) ->
           /\ ContentLength # 0
           /\ Filename(Get(request.Header, "Content-Disposition")) # << >>
      [] Selected(fields[k]) = "file" /\ ~IsBinary(k) ->
           Has(request.Part, Lookup(fields[k].Tag, "file").value)
      [] OTHER -> Raw(k) # << >>

Expected(k) ==
    CASE Selected(fields[k]) = "file" /\ IsBinary(k) ->
           FileValue(fields[k].Type,
                     File(Filename(Get(request.Header, "Content-Disposition")),
                          ContentLength, request.Body))
      [] Selected(fields[k]) = "file" /\ ~IsBinary(k) ->
           LET part == Get(request.Part, Lookup(fields[k].Tag, "file").value)
           IN  FileValue(fields[k].Type,
                         File(part.Filename, Len(part.Content), part.Content))
      [] OTHER -> convert(Zero(fields[k].Type), fields[k].Type, Raw(k)).val

\* C4 (the claim as stated; the code breaks it): when Convert returns nil,
\* every exported field whose selected source has a present, non-empty value
\* in the request holds the converted value of that source, wherever the field
\* is in the struct and whatever the other fields are.
C4_PresentValuesBound ==
    (Returned /\ err = Nil /\ destination = "*T") =>
        \A k \in 1..NumField :
            (fields[k].Exported /\ Present(k)) => v[k] = Expected(k)

\* the JSON pass wrote the field
DecodedInto(k) ==
    /\ \E n \in 1..Len(reads) : reads[n][1] = "json"
    /\ ValidJSON(request.Body)
    /\ DecodeFits(fields, k, request.Body)

\* C5 (the claim as stated; the code breaks it): a field with no usable form,
\* file, header, query or path tag holds after the call the value that the
\* caller had put in it.
C5_UntaggedUntouched ==
    Returned =>
        \A k \in 1..NumField :
            (Selected(fields[k]) = "none" /\ ~DecodedInto(k)) => v[k] = before[k]

\* the field k is bound from a form, header, query or path value, and the raw
\* value read for it is the empty string
EmptyRaw(k) ==
    /\ bound[k] \in {"form", "header", "query", "path"}
    /\ bound[k] \in ReadersOf(k)
    /\ Raw(k) = << >>

\* the call returned the error of field k
FailedAt(k) == Returned /\ err # Nil /\ i = k

IsNestedSliceError ==
    /\ Len(err) >= 2
    /\ SubSeq(err, Len(err) - 1, Len(err)) =
           <<"slice element kind %q is not supported", "slice">>

BoundNestedSlice ==
    /\ Returned
    /\ NumField = 1
    /\ fields[1].Type = "[][]int"
    /\ bound[1] \in {"form", "header", "query", "path"}

\* C7 (the claim as stated; it fails for the empty string): a [][]int field
\* bound from a form, header, query or path source makes Convert fail with an
\* unsupported-type error for every raw value, the empty string included.
C7_NestedSliceAlwaysFails == BoundNestedSlice => IsNestedSliceError

\* C7 as amended: the call fails with the unsupported-type error for every
\* raw value but the empty string; for the empty string it raises no error
\* and leaves the field at its zero value.
C7_NestedSliceFailsUnlessEmpty ==
    BoundNestedSlice =>
        IF Raw(1) = << >>
        THEN err = Nil /\ v[1] = Zero("[][]int")
        ELSE IsNestedSliceError /\ v[1] = Zero("[][]int")

C7_Witness ==
    /\ BoundNestedSlice
    /\ Raw(1) = <<"1", ",", "2">>
    /\ IsNestedSliceError

\* the parts of a raw value, counted from its commas
Commas(s) == {k \in 1..Len(s) : s[k] = ","}

NumParts(s) == Cardinality(Commas(s)) + 1

CommaPos(s, j) ==
    IF j = 0 THEN 0
    ELSE IF j = NumParts(s) THEN Len(s) + 1
    ELSE CHOOSE k \in Commas(s) : Cardinality({m \in Commas(s) : m <= k}) = j

PartOf(s, j) == SubSeq(s, CommaPos(s, j - 1) + 1, CommaPos(s, j) - 1)

BoundScalarSlice ==
    /\ Returned
    /\ NumField = 1
    /\ fields[1].Type \in {"[]int", "[]int8", "[]bool", "[]string"}
    /\ bound[1] = "query"

\* C8: a slice field with a scalar element type bound from a non-empty raw
\* value whose non-empty parts all parse holds one element per part of the
\* value split on ',', in order, the zero value for an empty part; "1,2,3"
\* gives [1,2,3] for a []int; an empty raw value gives the nil slice.
C8_SliceOfParts ==
    BoundScalarSlice =>
        LET raw == Raw(1)
            e == Elem(fields[1].Type)
        IN  /\ raw = << >> => (err = Nil /\ v[1] = << >>)
            /\ (/\ raw # << >>
                /\ \A j \in 1..NumParts(raw) :
                      \/ PartOf(raw, j) = << >>
                      \/ convertScalar(Zero(e), e, PartOf(raw, j)).err = Nil)
               => /\ err = Nil
                  /\ Len(v[1]) = NumParts(raw)
                  /\ \A j \in 1..NumParts(raw) :
                        v[1][j] = IF PartOf(raw, j) = << >> THEN Zero(e)
                                  ELSE convertScalar(Zero(e), e, PartOf(raw, j)).val
            /\ (raw = <<"1", ",", "2", ",", "3">> /\ fields[1].Type = "[]int")
               => v[1] = <<1, 2, 3>>

C8_Witness ==
    /\ BoundScalarSlice
    /\ fields[1].Type = "[]int"
    /\ Raw(1) = <<"1", ",", ",", "2">>
    /\ v[1] = <<1, 0, 2>>

\* C9 (the claim as stated; the code breaks it): with a content length of 0,
\* a File or *File field tagged file:"binary" makes no error and holds after
\* the call the value it held before.
C9_BinaryUnmodified ==
    Returned =>
        \A k \in 1..NumField :
            (/\ bound[k] = "binary"
             /\ FileTypeSupported(fields[k].Type)
             /\ ContentLength = 0)
            => (~FailedAt(k) /\ v[k] = before[k])

\* FormFile has found no part of the name of the file tag of field k
NoSuchPart(k) ==
    /\ bound[k] = "file"
    /\ FileTypeSupported(fields[k].Type)
    /\ MediaType(request) = <<"multipart/form-data">>
    /\ "file" \in ReadersOf(k)
    /\ ~Has(request.Part, Lookup(fields[k].Tag, "file").value)

\* C10: a File or *File field with a file tag other than "binary", on a
\* multipart request without a part of that name, raises no error, is left
\* at its zero value, and the loop goes on with the fields that follow.
C10_MissingPartSkipped ==
    \A k \in 1..NumField :
        NoSuchPart(k) =>
            /\ ~FailedAt(k)
            /\ v[k] = Zero(fields[k].Type)
            /\ i > k
            /\ \A j \in (k + 1)..NumField :
                  (j < i /\ fields[j].Exported) => bound[j] # ""

C10_Witness ==
    /\ Returned /\ err = Nil
    /\ fields = <<Doc, Page>>
    /\ NoSuchPart(1)
    /\ before[1] # << >> /\ v[1] = << >>
    /\ bound[2] = "query" /\ v[2] = 2

\* the per-field loop returned the error of field k
LoopFailedAt(k) == FailedAt(k) /\ k \in 1..NumField /\ bound[k] # ""

\* the value of field j when the loop began: the caller's, or the one that the
\* JSON pass decoded into it
AtLoopStart(j) == IF DecodedInto(j) THEN <<request.Body[4]>> ELSE before[j]

\* what was left of the body stream when the loop came to field j
BodyReaders == {"json", "ParseMultipartForm", "binary"}

BodyLeftAt(j) ==
    IF \E n \in 1..Len(reads) : reads[n][1] \in BodyReaders /\ reads[n][2] < j
    THEN << >>
    ELSE request.Body

\* the value that the request holds for a field bound by the loop: the
\* converted value of its source, the file of its part or of the body, and the
\* zero value when the request has nothing for it
BoundValue(j) ==
    LET t == fields[j].Type
        tag == Lookup(fields[j].Tag, "file").value
        filename == Filename(Get(request.Header, "Content-Disposition"))
    IN  CASE bound[j] \in {"form", "header", "query", "path"} ->
               convert(Zero(t), t, Raw(j)).val
          [] bound[j] = "file" ->
               IF MediaType(request) = <<"multipart/form-data">>
                  /\ Has(request.Part, tag)
               THEN LET part == Get(request.Part, tag)
                    IN  FileValue(t, File(part.Filename, Len(part.Content),
                                          part.Content))
               ELSE Zero(t)
          [] bound[j] = "binary" ->
               IF filename # << >>
               THEN FileValue(t, File(filename, ContentLength, BodyLeftAt(j)))
               ELSE Zero(t)
          [] OTHER -> Zero(t)

\* the loop stopped at field k: no field after k was bound or read for, and
\* every field that the loop bound from a source before k holds the value of
\* that source
StoppedAt(k) ==
    /\ \A j \in (k + 1)..NumField : bound[j] = ""
    /\ \A n \in 1..Len(reads) : reads[n][2] <= k
    /\ \A j \in 1..(k - 1) :
          bound[j] \notin {"", "none"} =>
              /\ v[j] = BoundValue(j)
              /\ bound[j] \in {"form", "header", "query", "path"} =>
                     convert(Zero(fields[j].Type), fields[j].Type,
                             Raw(j)).err = Nil

\* C11 (the claim as stated; it fails for a field that was not zero when the
\* loop began): when the loop fails at field k, Convert returns with that
\* error and processes no further field, every field bound before k holds the
\* value of its source, and every field after k is at its zero value.
C11_LaterFieldsZero ==
    \A k \in 1..NumField :
        LoopFailedAt(k) =>
            /\ StoppedAt(k)
            /\ \A j \in (k + 1)..NumField : v[j] = Zero(fields[j].Type)

\* C11 as amended: when the loop fails at field k, Convert returns with that
\* error and processes no further field, every field bound before k holds the
\* value of its source, and every field after k holds the value it had when
\* the loop began (the caller's, or the one decoded from the JSON body).
C11_LaterFieldsUntouched ==
    \A k \in 1..NumField :
        LoopFailedAt(k) =>
            /\ StoppedAt(k)
            /\ \A j \in (k + 1)..NumField : v[j] = AtLoopStart(j)

\* the query value of the first field does not parse, and the second field
\* keeps the value of the JSON body
C11_Witness ==
    /\ fields = <<Page, Name>>
    /\ LoopFailedAt(1)
    /\ Raw(1) = <<"x">>
    /\ DecodedInto(2) /\ v[2] = <<"a">>

\* the field that the text of an error names, "" when it names none
ErrorField(e) ==
    CASE e[1] = "failed to convert %q source to %q field" -> e[4]
      [] e[1] \in {"%q type is not supported for %q field",
                   "failed to get %q form file for %q field",
                   "failed to read %q form file content for %q field",
                   "failed to read %q raw body for %q field"} -> e[3]
      [] OTHER -> ""

\* the source that the text of an error names, "" when it names none: the
\* word of the message ("form", "header", "query", "path", "form file",
\* "multipart form"), the raw body being the source of the tag file:"binary"
ErrorSource(e) ==
    CASE e[1] = "failed to convert %q source to %q field" -> e[2]
      [] e[1] \in {"failed to get %q form file for %q field",
                   "failed to read %q form file content for %q field",
                   "failed to read %q raw body for %q field"} -> "file"
      [] e[1] = "failed to parse request multipart form" -> "form"
      [] OTHER -> ""

\* Convert returned an error after the checks of its arguments
FailedAfterChecks ==
    /\ Returned /\ err # Nil
    /\ ~request.IsNil /\ destination \in {"*T", "nil *T"}

IntegerTypes == {"int", "int8", "int16", "uint", "uint8", "uint16"}

InRange(t, n) ==
    CASE t = "int8" -> n >= 0 - 128 /\ n <= 127
      [] t = "int16" -> n >= 0 - 32768 /\ n <= 32767
      [] t = "uint8" -> n >= 0 /\ n <= 255
      [] t = "uint16" -> n >= 0 /\ n <= 65535
      [] t = "uint" -> n >= 0
      [] OTHER -> TRUE

\* the string is the base-10 text of an integer: digits, after a '-' or not
IsDecimal(s) ==
    \/ AllDigits(s)
    \/ Len(s) > 1 /\ s[1] = "-" /\ AllDigits(Tail(s))

Decimal(s) == IF s[1] = "-" THEN 0 - DecVal(Tail(s)) ELSE DecVal(s)

\* the error of a value that strconv does not parse
IsConversionError ==
    /\ Len(err) >= 3
    /\ err[Len(err) - 2] = "failed to parse value to %q"
    /\ err[Len(err)] \in {"strconv.ParseInt", "strconv.ParseUint"}

BoundInteger ==
    /\ Returned
    /\ NumField = 1
    /\ fields[1].Type \in IntegerTypes
    /\ bound[1] = "query"

\* C13 (the claim as stated; it fails for the empty string): convert assigns
\* v to an integer field from the base-10 text of a value v in the range of
\* its type, and returns a conversion error with the field at zero for a
\* value out of the range and for a string that is no base-10 integer.
C13_InRangeOrError ==
    BoundInteger =>
        LET raw == Raw(1)
            t == fields[1].Type
        IN  IF IsDecimal(raw) /\ InRange(t, Decimal(raw))
            THEN err = Nil /\ v[1] = Decimal(raw)
            ELSE IsConversionError /\ v[1] = 0

\* C13 as amended: as stated for every string but the empty one, for which
\* convert returns no error and the field stays at zero.
C13_InRangeOrErrorUnlessEmpty ==
    BoundInteger =>
        LET raw == Raw(1)
            t == fields[1].Type
        IN  IF raw = << >>
            THEN err = Nil /\ v[1] = 0
            ELSE IF IsDecimal(raw) /\ InRange(t, Decimal(raw))
            THEN err = Nil /\ v[1] = Decimal(raw)
            ELSE IsConversionError /\ v[1] = 0

\* "128" is out of the range of an int8
C13_Witness ==
    /\ BoundInteger
    /\ fields[1].Type = "int8"
    /\ Raw(1) = <<"1", "2", "8">>
    /\ IsConversionError /\ v[1] = 0 /\ before[1] # 0

\* the reads of the JSON decoder, by their place among the reads
JSONReads == {n \in 1..Len(reads) : reads[n][1] = "json"}

\* the three conditions of the body pass, on the request and the struct type:
\* a body, a Content-Type that is application/json before its parameters
\* (spaces around it aside), an exported field with a json tag other than "-"
ShouldDecode ==
    /\ request.Body # << >>
    /\ Get(request.Header, "Content-Type") \in {ApplicationJSON, JSONWithCharset}
    /\ \E k \in 1..NumField :
          /\ fields[k].Exported
          /\ \E p \in fields[k].Tag : p[1] = "json" /\ p[2] # "-"

\* the call is past convertBody
PastBodyPass ==
    /\ ~request.IsNil /\ destination \in {"*T", "nil *T"}
    /\ pc \in {"loop", "return", "panic"}

\* the loop has not begun: no field is bound, skipped or read for
LoopNotBegun ==
    /\ i <= 1
    /\ \A k \in 1..NumField : bound[k] = ""
    /\ \A n \in 1..Len(reads) : reads[n][2] = 0

\* C14: in a call that passes the checks of its arguments, the JSON decoder
\* reads the body at most once; it does so if and only if the content length
\* is not zero, the Content-Type before ';' is application/json and an
\* exported field has a json tag other than "-"; its read is ahead of every
\* read of the loop; and a body pass without it leaves the body unread.
C14_DecoderOnce ==
    /\ Cardinality(JSONReads) <= 1
    /\ JSONReads \subseteq {1}
    /\ PastBodyPass => (JSONReads # {} <=> ShouldDecode)
    /\ (pc = "convertBody") => (reads = << >> /\ LoopNotBegun)
    /\ (PastBodyPass /\ LoopNotBegun /\ pc = "loop") =>
          IF ShouldDecode
          THEN reads = <<<<"json", 0>>>> /\ Body = << >>
          ELSE reads = << >> /\ Body = request.Body

\* the body pass decoded {"name": "a"} for a struct whose first field has the
\* tag json:"-", under a Content-Type with a parameter; the loop has not begun
C14_Witness ==
    /\ fields = <<Matrix, Name>>
    /\ Get(request.Header, "Content-Type") = JSONWithCharset
    /\ pc = "loop" /\ LoopNotBegun
    /\ reads = <<<<"json", 0>>>>
    /\ v[2] = <<"a">>

\* the reads of the body stream by the JSON decoder and by binary file fields
StreamReads == {n \in 1..Len(reads) : reads[n][1] \in {"json", "binary"}}

\* C15 (the claim as stated; the code breaks it): in one call at most one
\* reader consumes the body stream: the JSON decoder and a binary file field
\* never both read it, and no two binary file fields read it.
C15_SingleBodyReader == Cardinality(StreamReads) <= 1

----------------------------------------------------------------------------
TypeOK ==
    /\ pc \in {"Convert", "convertBody", "loop", "return", "panic"}
    /\ i \in 0..(NumField + 1)
    /\ Len(v) = NumField

====
